---- MODULE Spec2Model ----
(***************************************************************************)
(* Who-did-What relation extraction (whodidwhat/svo_extraction.py).        *)
(*                                                                         *)
(* A parsed document is a sequence of tokens; token t is doc[t], a record  *)
(*   head  : index of the head token (a sentence root is its own head)     *)
(*   dep   : dependency label          pos  : coarse part of speech         *)
(*   tag   : fine-grained tag          mood : "Imp" or ""                   *)
(*   text  : surface form              lemma: lemma                         *)
(* A string made of words is the sequence of its words, so that            *)
(* ' '.join(parts) is the concatenation of the parts.                      *)
(***************************************************************************)
EXTENDS Integers, Sequences, FiniteSets, TLC

VARIABLES doc, syn, pc, processed, svo_triples, idx, data_rows, runs, previous

vars == <<doc, syn, pc, processed, svo_triples, idx, data_rows, runs, previous>>

-----------------------------------------------------------------------------
(* Sequences *)

RECURSIVE ConcatAll(_)
ConcatAll(ss) ==
    IF Len(ss) = 0 THEN <<>> ELSE Head(ss) \o ConcatAll(Tail(ss))

RECURSIVE SortedSeq(_)
SortedSeq(S) ==
    IF S = {} THEN <<>>
    ELSE LET m == CHOOSE x \in S : \A y \in S : x <= y
         IN  <<m>> \o SortedSeq(S \ {m})

Range(s) == {s[i] : i \in DOMAIN s}

NoDuplicates(s) == \A i, j \in DOMAIN s : i # j => s[i] # s[j]

Contains(s, x) == \E i \in DOMAIN s : s[i] = x

\* l[1:]
Slice1(l) == IF Len(l) <= 1 THEN <<>> ELSE SubSeq(l, 2, Len(l))

-----------------------------------------------------------------------------
(* The token tree, as the parser exposes it *)

Tok == DOMAIN doc

\* token.children: the tokens whose head is t, in document order
children(t) == SortedSeq({c \in Tok : c # t /\ doc[c].head = t})

\* token.lefts / token.rights
lefts(t) == SelectSeq(children(t), LAMBDA c : c < t)
rights(t) == SelectSeq(children(t), LAMBDA c : c > t)

\* token.ancestors: head, head of head, ... up to the sentence root
RECURSIVE ancestors(_)
ancestors(t) ==
    IF doc[t].head = t THEN <<>> ELSE <<doc[t].head>> \o ancestors(doc[t].head)

\* token.subtree, in document order
RECURSIVE descendants(_)
descendants(t) ==
    LET cs == Range(children(t))
    IN  cs \cup UNION {descendants(c) : c \in cs}

subtree(t) == SortedSeq({t} \cup descendants(t))

\* token.conjuncts: climb conj links to the first conjunct, then collect the
\* conj-labelled right children breadth first; the token itself is left out
RECURSIVE ConjStart(_)
ConjStart(t) ==
    IF doc[t].head # t /\ doc[t].dep = "conj" THEN ConjStart(doc[t].head) ELSE t

RECURSIVE ConjQueue(_, _)
ConjQueue(queue, k) ==
    IF k > Len(queue) THEN queue
    ELSE ConjQueue(queue \o SelectSeq(rights(queue[k]),
                                      LAMBDA c : doc[c].dep = "conj"), k + 1)

conjuncts(t) == SelectSeq(ConjQueue(<<ConjStart(t)>>, 1), LAMBDA w : w # t)

childrenWith(t, deps) == SelectSeq(children(t), LAMBDA c : doc[c].dep \in deps)

Nominal == {"NOUN", "PROPN", "PRON"}

-----------------------------------------------------------------------------
(* Stop lists of whodidwhat.resources *)

_VAGUE_AUX == {"be", "have", "do"}

_VAGUE_ADVMODS == {"very", "just"}

-----------------------------------------------------------------------------
(* Phrase assembler: get_compound_parts *)

Word(t, lemmatize) == IF lemmatize THEN doc[t].lemma ELSE doc[t].text

WordsOf(ts, lemmatize) == [i \in DOMAIN ts |-> Word(ts[i], lemmatize)]

ModifierDeps == {"compound", "nmod", "advmod", "amod", "npadvmod"}

\* sorted(modifiers, key=lambda x: x.i): a stable sort that keeps repeats
SortByI(ts) ==
    ConcatAll([i \in 1..Len(doc) |-> SelectSeq(ts, LAMBDA x : x = i)])

\* The helper reads the enclosing loop variable child, not its own parameter
get_conj_ADJ(token, child) ==
    SelectSeq(conjuncts(child),
              LAMBDA conj : doc[conj].pos = "ADJ" /\ doc[conj].dep = "conj")

IsModifierChild(token, child) ==
    /\ \/ doc[child].dep \in {"compound", "amod", "nmod"}
       \/ /\ doc[child].dep \in {"advmod", "npadvmod"}
          /\ doc[token].pos \in {"VERB", "AUX"}
    /\ doc[child].pos \notin {"SCONJ", "CCONJ", "PART"}

GrandGrandChildModifiers(grandchild, child) ==
    ConcatAll([k \in DOMAIN children(grandchild) |->
        LET grandgrandchild == children(grandchild)[k]
        IN  IF doc[grandgrandchild].dep \in ModifierDeps
            THEN <<grandgrandchild>> \o get_conj_ADJ(grandgrandchild, child)
            ELSE <<>>])

GrandChildModifiers(child) ==
    ConcatAll([j \in DOMAIN children(child) |->
        LET grandchild == children(child)[j]
        IN  (IF doc[grandchild].dep \in ModifierDeps
             THEN <<grandchild>> \o get_conj_ADJ(grandchild, child)
             ELSE <<>>)
            \o GrandGrandChildModifiers(grandchild, child)])

\* The modifiers list before it is sorted
CollectModifiers(token) ==
    ConcatAll([i \in DOMAIN children(token) |->
        LET child == children(token)[i]
        IN  IF IsModifierChild(token, child)
            THEN <<child>> \o get_conj_ADJ(child, child)
                 \o GrandChildModifiers(child)
            ELSE <<>>])

Determiners(token) ==
    SelectSeq(children(token),
              LAMBDA c : doc[c].dep = "det" /\ doc[c].lemma \notin {"the", "a", "an"})

RECURSIVE get_compound_parts(_, _)
get_compound_parts(token, lemmatize) ==
    LET acls == childrenWith(token, {"acl", "relcl"})
        nsubjParts(child) ==
            LET nsubjs == childrenWith(child, {"nsubj"})
            IN  [n \in DOMAIN nsubjs |-> get_compound_parts(nsubjs[n], lemmatize)]
        aclWords ==
            ConcatAll([i \in DOMAIN acls |->
                WordsOf(childrenWith(acls[i], {"mark"}), lemmatize)
                \o ConcatAll([n \in DOMAIN nsubjParts(acls[i]) |->
                                  nsubjParts(acls[i])[n].main])])
        aclPreps ==
            ConcatAll([i \in DOMAIN acls |->
                ConcatAll([n \in DOMAIN nsubjParts(acls[i]) |->
                               nsubjParts(acls[i])[n].preps])])
        parts == WordsOf(Determiners(token), lemmatize)
                 \o aclWords
                 \o WordsOf(SortByI(CollectModifiers(token)), lemmatize)
                 \o <<Word(token, lemmatize)>>
        preps == childrenWith(token, {"prep"})
        pobjWords(pobj) ==
            LET items == <<pobj>> \o conjuncts(pobj)
            IN  ConcatAll([m \in DOMAIN items |->
                    LET r == get_compound_parts(items[m], lemmatize)
                    IN  r.main \o ConcatAll(r.preps)])
        prepPhrase(p) ==
            LET pobj_list == childrenWith(p, {"pobj"})
            IN  <<doc[p].text>>
                \o ConcatAll([k \in DOMAIN pobj_list |-> pobjWords(pobj_list[k])])
        prepPhrases ==
            ConcatAll([i \in DOMAIN preps |->
                LET prep_conjuncts == <<preps[i]>> \o conjuncts(preps[i])
                IN  [j \in DOMAIN prep_conjuncts |-> prepPhrase(prep_conjuncts[j])]])
    IN  [main |-> parts, preps |-> aclPreps \o prepPhrases]

-----------------------------------------------------------------------------
(* Subject resolver *)

extract_subjects(subject_token) ==
    LET conjunct_subjects ==
            SelectSeq(conjuncts(subject_token), LAMBDA c : doc[c].pos \in Nominal)
    IN  (IF doc[subject_token].pos \in Nominal
         THEN <<get_compound_parts(subject_token, FALSE)>> ELSE <<>>)
        \o [i \in DOMAIN conjunct_subjects |->
                get_compound_parts(conjunct_subjects[i], FALSE)]

ExtractSubjectsAll(ts) == ConcatAll([i \in DOMAIN ts |-> extract_subjects(ts[i])])

extract_clause(token) == WordsOf(subtree(token), TRUE)

AclSubjects_AlsoConjNouns(verb) ==
    LET nsubjs == childrenWith(verb, {"nsubj"})
    IN  (IF nsubjs # <<>> THEN ExtractSubjectsAll(nsubjs)
         ELSE <<get_compound_parts(doc[verb].head, FALSE)>>)
        \o ExtractSubjectsAll(SelectSeq(children(verb),
               LAMBDA c : doc[c].dep = "conj" /\ doc[c].pos \in Nominal))

\* verb.dep_ in {acl, relcl}: the verb's own nsubj children, else the noun it
\* modifies, in surface form
AclSubjects(verb) ==
    LET nsubjs == childrenWith(verb, {"nsubj"})
    IN  IF nsubjs # <<>> THEN ExtractSubjectsAll(nsubjs)
        ELSE <<get_compound_parts(doc[verb].head, FALSE)>>

DirectSubjects_AlsoPassive(verb) ==
    ExtractSubjectsAll(childrenWith(verb, {"nsubj", "nsubjpass"}))

DirectSubjects(verb) == ExtractSubjectsAll(childrenWith(verb, {"nsubj"}))

ClausalSubjects(verb) ==
    LET csubj_subjects == childrenWith(verb, {"csubj"})
    IN  [i \in DOMAIN csubj_subjects |->
            [main |-> extract_clause(csubj_subjects[i]), preps |-> <<>>]]

AgentSubjects(verb) ==
    IF childrenWith(verb, {"nsubjpass"}) # <<>>
    THEN LET agents == childrenWith(verb, {"agent"})
         IN  ConcatAll([i \in DOMAIN agents |->
                 ExtractSubjectsAll(childrenWith(agents[i], {"pobj"}))])
    ELSE <<>>

FirstExpansion_AllAncestors(ts) == ExtractSubjectsAll(ts)

\* The subject children of the ancestors, nearest ancestor first; the first
\* one that expands to anything is adopted
RECURSIVE FirstExpansion(_)
FirstExpansion(ts) ==
    IF ts = <<>> THEN <<>>
    ELSE IF extract_subjects(Head(ts)) # <<>> THEN extract_subjects(Head(ts))
    ELSE FirstExpansion(Tail(ts))

AncestorSubjects(verb) ==
    LET anc == ancestors(verb)
    IN  FirstExpansion(ConcatAll([i \in DOMAIN anc |->
            childrenWith(anc[i], {"nsubj", "nsubjpass", "csubj"})]))

ConjNounSubjects(verb) ==
    ExtractSubjectsAll(SelectSeq(children(verb),
        LAMBDA c : doc[c].dep = "conj" /\ doc[c].pos \in Nominal))

You == [main |-> <<"you">>, preps |-> <<>>]

IsImperativeRoot_AnyVerb(verb) ==
    doc[verb].mood = "Imp" \/ doc[verb].tag = "VB"

IsImperativeRoot(verb) ==
    /\ doc[verb].head = verb
    /\ doc[verb].mood = "Imp" \/ doc[verb].tag = "VB"

RECURSIVE get_verb_subjects(_)
get_verb_subjects(verb) ==
    IF doc[verb].dep \in {"acl", "relcl"} THEN AclSubjects(verb)
    ELSE
    LET found == DirectSubjects(verb) \o ClausalSubjects(verb) \o AgentSubjects(verb)
        inherited == IF found = <<>> THEN AncestorSubjects(verb) ELSE found
        fromHead == IF /\ inherited = <<>>
                       /\ doc[verb].dep = "conj"
                       /\ doc[doc[verb].head].pos = "VERB"
                    THEN get_verb_subjects(doc[verb].head)
                    ELSE inherited
        subjects == fromHead \o ConjNounSubjects(verb)
    IN  IF subjects = <<>> /\ IsImperativeRoot(verb) THEN <<You>> ELSE subjects

-----------------------------------------------------------------------------
(* Conjunct chasing with a visited set *)

RECURSIVE GetConjunctsFrom(_, _)
RECURSIVE GetConjunctsLoop(_, _, _, _)
RECURSIVE GetConjunctsLoop_CopiedVisited(_, _, _, _)

\* One call: [list |-> the tokens collected, visited |-> the set afterwards]
GetConjunctsFrom(token, visited) ==
    GetConjunctsLoop(conjuncts(token), 1, <<token>>, visited \cup {token})

GetConjunctsLoop_CopiedVisited(cs, k, acc, visited) ==
    IF k > Len(cs) THEN [list |-> acc, visited |-> visited]
    ELSE IF cs[k] \notin visited
         THEN GetConjunctsLoop_CopiedVisited(cs, k + 1,
                  acc \o GetConjunctsFrom(cs[k], visited).list, visited)
         ELSE GetConjunctsLoop_CopiedVisited(cs, k + 1, acc, visited)

GetConjunctsLoop(cs, k, acc, visited) ==
    IF k > Len(cs) THEN [list |-> acc, visited |-> visited]
    ELSE IF cs[k] \notin visited
         THEN LET r == GetConjunctsFrom(cs[k], visited)
              IN  GetConjunctsLoop(cs, k + 1, acc \o r.list, r.visited)
         ELSE GetConjunctsLoop(cs, k + 1, acc, visited)

get_conjuncts(token) == GetConjunctsFrom(token, {}).list

-----------------------------------------------------------------------------
(* Object resolver *)

\* The preposition of a pobj is put before its phrase
ObjectEntry(t) ==
    LET r == get_compound_parts(t, TRUE)
    IN  IF doc[t].dep = "pobj"
        THEN [main |-> <<doc[doc[t].head].text>> \o r.main, preps |-> r.preps]
        ELSE r

extract_objects(object_token) ==
    LET conjunct_objects ==
            SelectSeq(conjuncts(object_token),
                      LAMBDA c : doc[c].pos \in Nominal \cup {"ADJ"})
    IN  (IF doc[object_token].pos \in Nominal \/ doc[object_token].dep = "acomp"
         THEN <<ObjectEntry(object_token)>> ELSE <<>>)
        \o [i \in DOMAIN conjunct_objects |-> ObjectEntry(conjunct_objects[i])]

process_objects(object_tokens) ==
    ConcatAll([i \in DOMAIN object_tokens |-> extract_objects(object_tokens[i])])

PrepObjects(verb) ==
    LET prep_phrases == childrenWith(verb, {"prep"})
    IN  ConcatAll([i \in DOMAIN prep_phrases |->
            LET preps == get_conjuncts(prep_phrases[i])
            IN  ConcatAll([j \in DOMAIN preps |->
                    process_objects(childrenWith(preps[j], {"pobj"}))])])

PassiveObjects(verb) ==
    IF doc[verb].tag \in {"VBN", "VBD"} /\ childrenWith(verb, {"nsubjpass"}) # <<>>
    THEN process_objects(childrenWith(verb, {"nsubjpass"}))
    ELSE <<>>

NpadvmodObjects(verb) ==
    process_objects(SelectSeq(children(verb),
        LAMBDA c : doc[c].dep = "npadvmod" /\ doc[c].pos \in {"PROPN", "PRON"}))

CcompObjects(verb) ==
    LET ccomps == childrenWith(verb, {"ccomp"})
    IN  ConcatAll([i \in DOMAIN ccomps |->
            ExtractSubjectsAll(childrenWith(ccomps[i], {"nsubj", "nsubjpass"}))])

RECURSIVE get_verb_objects(_)
RECURSIVE FirstConjObjects(_)

\* The first conj verb child that has objects lends them
FirstConjObjects(cs) ==
    IF cs = <<>> THEN <<>>
    ELSE IF get_verb_objects(Head(cs)) # <<>> THEN get_verb_objects(Head(cs))
    ELSE FirstConjObjects(Tail(cs))

get_verb_objects(verb) ==
    LET xcomp_children == childrenWith(verb, {"xcomp"})
        xcompObjects ==
            ConcatAll([i \in DOMAIN xcomp_children |->
                LET xcomp_objects == get_verb_objects(xcomp_children[i])
                IN  IF xcomp_objects # <<>> THEN xcomp_objects
                    ELSE process_objects(childrenWith(xcomp_children[i],
                                                      {"dobj", "attr", "oprd"}))])
        objects ==
            process_objects(childrenWith(verb, {"dobj", "attr", "oprd", "acomp"}))
            \o process_objects(childrenWith(verb, {"iobj"}))
            \o PrepObjects(verb)
            \o PassiveObjects(verb)
            \o NpadvmodObjects(verb)
            \o CcompObjects(verb)
            \o xcompObjects
    IN  IF objects = <<>>
        THEN FirstConjObjects(SelectSeq(children(verb),
                 LAMBDA c : doc[c].dep = "conj" /\ doc[c].pos = "VERB"))
        ELSE objects

-----------------------------------------------------------------------------
(* Verb phrase assembler *)

IsAuxOrNeg(c) ==
    doc[c].dep \in {"aux", "auxpass", "neg"} /\ doc[c].lemma \notin _VAGUE_AUX

IsVerbModifier(c) ==
    /\ doc[c].dep \in {"advmod", "amod", "npadvmod"}
    /\ doc[c].pos \notin {"SCONJ", "CCONJ", "PART", "DET"}
    /\ doc[c].lemma \notin _VAGUE_ADVMODS

\* Each part is a string; the result is the list holding the joined parts
RECURSIVE get_verb_phrase(_)
get_verb_phrase(verb) ==
    LET auxOf(side) == LET a == SelectSeq(side, IsAuxOrNeg)
                       IN  [i \in DOMAIN a |-> <<doc[a[i]].lemma>>]
        modsOf(side) == LET m == SelectSeq(side, IsVerbModifier)
                        IN  [i \in DOMAIN m |-> get_compound_parts(m[i], TRUE).main]
        xcomps == childrenWith(verb, {"xcomp"})
        xcompParts ==
            ConcatAll([i \in DOMAIN xcomps |->
                <<<<doc[xcomps[i]].lemma>>>> \o Slice1(get_verb_phrase(xcomps[i]))])
        parts == auxOf(lefts(verb)) \o modsOf(lefts(verb))
                 \o <<<<doc[verb].lemma>>>>
                 \o modsOf(rights(verb)) \o auxOf(rights(verb))
                 \o xcompParts
    IN  <<ConcatAll(parts)>>

-----------------------------------------------------------------------------
(* Relation builder: extract_svos *)

\* The Synonym Oracle: a symmetric relation on strings, fixed for a document
are_synonyms(word1, word2) == {word1, word2} \in syn

ExcludedDeps == {"aux", "auxpass", "amod", "npadvmod", "prep", "xcomp", "csubj"}

ExcludedHeadDeps == {"aux", "auxpass", "amod", "prep", "xcomp", "csubj"}

Qualifies(possible_verb) ==
    /\ doc[possible_verb].pos \in {"VERB", "AUX"}
    /\ doc[possible_verb].dep \notin ExcludedDeps
    /\ ~ (/\ doc[possible_verb].dep = "conj"
          /\ doc[doc[possible_verb].head].dep \in ExcludedHeadDeps)

Triple(possible_verb) ==
    [subjects |-> get_verb_subjects(possible_verb),
     verbs    |-> get_verb_phrase(possible_verb),
     objects  |-> get_verb_objects(possible_verb)]

\* str(svo), the trace shared by the rows of one triple, and the placeholder
\* of the synonym rows
Str(svo) == <<svo.subjects, svo.verbs, svo.objects>>

NA == <<"N/A">>

Row(n1, r1, n2, r2, trace, sem) ==
    [Node1 |-> n1, WDW |-> r1, Node2 |-> n2, WDW2 |-> r2,
     Hypergraph |-> trace, Semantic_Syntactic |-> sem]

combinations2_WithSelf(s) ==
    ConcatAll([i \in DOMAIN s |->
        [j \in 1..(Len(s) - i + 1) |-> <<s[i], s[i + j - 1]>>]])

\* itertools.combinations(s, 2): the pairs <<s[i], s[j]>>, i < j, in order
combinations2(s) ==
    ConcatAll([i \in DOMAIN s |->
        [j \in 1..(Len(s) - i) |-> <<s[i], s[i + j]>>]])

Mains(entries) == [i \in DOMAIN entries |-> entries[i].main]

SyntacticRows(svo) ==
    LET subjects == Mains(svo.subjects)
        objects == Mains(svo.objects)
        verbs == svo.verbs
        hypergraph == Str(svo)
        subjPairs == IF Len(subjects) > 1 THEN combinations2(subjects) ELSE <<>>
        objPairs == IF Len(objects) > 1 THEN combinations2(objects) ELSE <<>>
    IN  ConcatAll([i \in DOMAIN subjects |->
            [v \in DOMAIN verbs |->
                Row(subjects[i], "Who", verbs[v], "Did", hypergraph, 0)]])
        \o ConcatAll([v \in DOMAIN verbs |->
            [i \in DOMAIN objects |->
                Row(verbs[v], "Did", objects[i], "What", hypergraph, 0)]])
        \o [k \in DOMAIN subjPairs |->
                Row(subjPairs[k][1], "Who", subjPairs[k][2], "Who", hypergraph, 0)]
        \o [k \in DOMAIN objPairs |->
                Row(objPairs[k][1], "What", objPairs[k][2], "What", hypergraph, 0)]

SemanticRows_WhoWhat(nodes, role) ==
    LET pairs == SelectSeq(combinations2(nodes),
                           LAMBDA p : are_synonyms(p[1], p[2]))
    IN  [k \in DOMAIN pairs |-> Row(pairs[k][1], "Who", pairs[k][2], "What", NA, 1)]

\* The rows added for the synonymous pairs of a list of distinct strings
SemanticRows(nodes, role) ==
    LET pairs == SelectSeq(combinations2(nodes),
                           LAMBDA p : are_synonyms(p[1], p[2]))
    IN  [k \in DOMAIN pairs |-> Row(pairs[k][1], role, pairs[k][2], role, NA, 1)]

all_subjects == ConcatAll([i \in DOMAIN svo_triples |-> Mains(svo_triples[i].subjects)])

all_objects == ConcatAll([i \in DOMAIN svo_triples |-> Mains(svo_triples[i].objects)])

ListOfSet_KeepRepeats(l) == {l}

\* list(set(l)): the distinct elements, in an order the hash seed decides
ListOfSet(l) ==
    {s \in [1..Cardinality(Range(l)) -> Range(l)] : Range(s) = Range(l)}

-----------------------------------------------------------------------------
(* Actions *)

\* Lines 112-126: the loop over the tokens of the document
Collect ==
    /\ pc = "start"
    /\ processed' = SelectSeq([t \in 1..Len(doc) |-> t], Qualifies)
    /\ svo_triples' = [i \in DOMAIN processed' |-> Triple(processed'[i])]
    /\ data_rows' = <<>>
    /\ idx' = 0
    /\ pc' = "rows"
    /\ UNCHANGED <<doc, syn, runs, previous>>

\* Lines 129-182: one iteration of the loop over the triples
BuildRows ==
    /\ pc = "rows"
    /\ idx < Len(svo_triples)
    /\ data_rows' = data_rows \o SyntacticRows(svo_triples[idx + 1])
    /\ idx' = idx + 1
    /\ UNCHANGED <<doc, syn, pc, processed, svo_triples, runs, previous>>

\* Lines 184-223: the synonym pass; data_rows is then the returned table
Synonyms ==
    /\ pc = "rows"
    /\ idx = Len(svo_triples)
    /\ \E subject_nodes \in ListOfSet(all_subjects) :
       \E object_nodes \in ListOfSet(all_objects) :
           data_rows' = data_rows \o SemanticRows(subject_nodes, "Who")
                                  \o SemanticRows(object_nodes, "What")
    /\ pc' = "done"
    /\ UNCHANGED <<doc, syn, processed, svo_triples, idx, runs, previous>>

\* The caller runs extract_svos on the same document a second time
Rerun ==
    /\ pc = "done"
    /\ runs = 1
    /\ previous' = data_rows
    /\ runs' = runs + 1
    /\ pc' = "start"
    /\ UNCHANGED <<doc, syn, processed, svo_triples, idx, data_rows>>

Next == Collect \/ BuildRows \/ Synonyms \/ Rerun

Start ==
    /\ pc = "start"
    /\ processed = <<>>
    /\ svo_triples = <<>>
    /\ idx = 0
    /\ data_rows = <<>>
    /\ runs = 1
    /\ previous = <<>>

-----------------------------------------------------------------------------
(* Parsed documents *)

RECURSIVE Up(_, _, _)
Up(h, t, k) == IF k = 0 THEN t ELSE Up(h, h[t], k - 1)

\* Head assignments that are forests: every token leads to a root
Heads(n) ==
    {h \in [1..n -> 1..n] : \A t \in 1..n : h[Up(h, t, n)] = Up(h, t, n)}

\* A kind of token; with no word of its own, a token takes the word of its place
KindW(dep, pos, tag, mood, text, lemma) ==
    [dep |-> dep, pos |-> pos, tag |-> tag, mood |-> mood, text |-> text, lemma |-> lemma]

Kind(dep, pos, tag, mood) == KindW(dep, pos, tag, mood, "", "")

\* Token i of a document over position words
TextAt == <<"W1", "W2", "W3", "W4", "W5", "W6", "W7">>

LemmaAt == <<"w1", "w2", "w3", "w4", "w5", "w6", "w7">>

MkToken(h, k, text, lemma) ==
    [head |-> h, dep |-> k.dep, pos |-> k.pos, tag |-> k.tag, mood |-> k.mood,
     text |-> IF k.text = "" THEN text ELSE k.text,
     lemma |-> IF k.lemma = "" THEN lemma ELSE k.lemma]

MkDoc(h, k) == [t \in DOMAIN h |-> MkToken(h[t], k[t], TextAt[t], LemmaAt[t])]

\* doc is a document of n tokens, one or more sentences, each a tree: a root
\* takes a kind of rootKinds, any other token a kind of kinds
IsDocOver(n, rootKinds, kinds) ==
    \E h \in Heads(n) :
    \E k \in [1..n -> rootKinds \cup kinds] :
        /\ \A t \in 1..n : (h[t] = t) <=> (k[t] \in rootKinds)
        /\ doc = MkDoc(h, k)

-----------------------------------------------------------------------------
(* Subject resolution over small trees *)

NumTokSubj == 3

SubjRootKinds ==
    {Kind("ROOT", "VERB", "VB", ""), Kind("ROOT", "VERB", "VBD", ""),
     Kind("ROOT", "VERB", "VBP", "Imp"), Kind("ROOT", "NOUN", "NN", "")}

SubjKinds ==
    {Kind("nsubj", "NOUN", "NN", ""), Kind("nsubj", "ADJ", "JJ", ""),
     Kind("conj", "NOUN", "NN", ""), Kind("conj", "VERB", "VB", ""),
     Kind("acl", "VERB", "VBN", ""), Kind("relcl", "VERB", "VBD", ""),
     Kind("ccomp", "VERB", "VB", ""), Kind("csubj", "VERB", "VBG", ""),
     Kind("dobj", "NOUN", "NN", "")}

InitSubj ==
    /\ IsDocOver(NumTokSubj, SubjRootKinds, SubjKinds)
    /\ syn = {}
    /\ Start

SpecSubj == InitSubj /\ [][Collect]_vars

-----------------------------------------------------------------------------
(* Properties of the subject resolver, under SpecSubj *)

Collected == pc # "start"

\* The subjects and objects resolved for the i-th processed token
SubjectsAt(i) == svo_triples[i].subjects

ObjectsAt(i) == svo_triples[i].objects

\* What extract_subjects is to give for a list of subject tokens: each token
\* that is nominal, then its nominal conjuncts, as surface forms
ExpansionTokens(ts) ==
    ConcatAll([i \in DOMAIN ts |->
        (IF doc[ts[i]].pos \in Nominal THEN <<ts[i]>> ELSE <<>>)
        \o SelectSeq(conjuncts(ts[i]), LAMBDA c : doc[c].pos \in Nominal)])

HeadWords(entries) == [i \in DOMAIN entries |-> entries[i].main[Len(entries[i].main)]]

\* C8: one call of get_verb_subjects and one call of get_verb_objects return
\* lists without duplicate entries.
C8_NoDuplicateEntries ==
    Collected =>
        \A i \in DOMAIN svo_triples :
            NoDuplicates(SubjectsAt(i)) /\ NoDuplicates(ObjectsAt(i))

\* What the rules other than the imperative default yield for a verb that is
\* not a relative or adnominal clause
OtherRulesYield(verb) ==
    LET found == DirectSubjects(verb) \o ClausalSubjects(verb) \o AgentSubjects(verb)
        inherited == IF found # <<>> THEN found ELSE AncestorSubjects(verb)
        conjunct == IF doc[verb].dep = "conj" /\ doc[doc[verb].head].pos = "VERB"
                    THEN get_verb_subjects(doc[verb].head) ELSE <<>>
    IN  (IF inherited # <<>> THEN inherited ELSE conjunct) \o ConjNounSubjects(verb)

ImperativeCase(verb) ==
    /\ doc[verb].head = verb
    /\ doc[verb].mood = "Imp" \/ doc[verb].tag = "VB"
    /\ OtherRulesYield(verb) = <<>>

\* C9: the result is exactly <<("you", [])>> for a root token in imperative
\* mood or with tag VB for which no other rule yields a subject; in every
\* other case the result has no entry beyond what the other rules yield.
C9_ImperativeDefault ==
    Collected =>
        \A i \in DOMAIN svo_triples :
            LET verb == processed[i]
            IN  /\ ImperativeCase(verb) => SubjectsAt(i) = <<You>>
                /\ ~ ImperativeCase(verb) /\ doc[verb].dep \notin {"acl", "relcl"}
                      => SubjectsAt(i) = OtherRulesYield(verb)
                /\ doc[verb].head # verb /\ doc[verb].dep # "conj"
                      => ~ Contains(SubjectsAt(i), You)

C9_Witness ==
    /\ Collected
    /\ \E i \in DOMAIN svo_triples :
          /\ doc[processed[i]].head = processed[i]
          /\ doc[processed[i]].tag = "VB"
          /\ children(processed[i]) # <<>>
          /\ SubjectsAt(i) = <<You>>

\* C10: for a token labelled acl or relcl the result is the expansion of its
\* nsubj children when it has any, and otherwise the one surface-form phrase
\* of its head; no other rule contributes.
C10_AclShortCircuit ==
    Collected =>
        \A i \in DOMAIN svo_triples :
            LET verb == processed[i]
                nsubjs == childrenWith(verb, {"nsubj"})
            IN  doc[verb].dep \in {"acl", "relcl"} =>
                    IF nsubjs # <<>>
                    THEN HeadWords(SubjectsAt(i))
                            = WordsOf(ExpansionTokens(nsubjs), FALSE)
                    ELSE /\ Len(SubjectsAt(i)) = 1
                         /\ HeadWords(SubjectsAt(i)) = <<doc[doc[verb].head].text>>

\* An acl token with a conj noun child and no nsubj child: only the head counts
C10_Witness ==
    /\ Collected
    /\ \E i \in DOMAIN svo_triples :
          /\ doc[processed[i]].dep \in {"acl", "relcl"}
          /\ childrenWith(processed[i], {"nsubj"}) = <<>>
          /\ ConjNounSubjects(processed[i]) # <<>>
          /\ HeadWords(SubjectsAt(i)) = <<doc[doc[processed[i]].head].text>>

-----------------------------------------------------------------------------
(* Passive clauses *)

NumTokPassive == 4

PassiveRootKinds == {Kind("ROOT", "VERB", "VBN", ""), Kind("ROOT", "NOUN", "NN", "")}

PassiveKinds ==
    {Kind("nsubjpass", "NOUN", "NN", ""), Kind("nsubjpass", "ADJ", "JJ", ""),
     Kind("agent", "ADP", "IN", ""), Kind("pobj", "NOUN", "NN", ""),
     Kind("relcl", "VERB", "VBN", "")}

\* Labels sit where the annotation scheme puts them: a pobj under an
\* adposition, a passive subject or an agent under a verb, a relative clause
\* under a nominal
WellAttached(d) ==
    \A t \in DOMAIN d :
        /\ d[t].dep = "pobj" => d[d[t].head].pos = "ADP"
        /\ d[t].dep \in {"nsubjpass", "agent"} => d[d[t].head].pos = "VERB"
        /\ d[t].dep = "relcl" => d[d[t].head].pos \in Nominal

InitPassive ==
    /\ IsDocOver(NumTokPassive, PassiveRootKinds, PassiveKinds)
    /\ WellAttached(doc)
    /\ syn = {}
    /\ Start

SpecPassive == InitPassive /\ [][Collect]_vars

\* The agents' nominal pobj children and the passive subjects of a verb
AgentPobjs(verb) ==
    LET agents == childrenWith(verb, {"agent"})
    IN  SelectSeq(ConcatAll([i \in DOMAIN agents |-> childrenWith(agents[i], {"pobj"})]),
                  LAMBDA p : doc[p].pos \in Nominal)

PassiveCase(verb) ==
    childrenWith(verb, {"nsubjpass"}) # <<>> /\ AgentPobjs(verb) # <<>>

-----------------------------------------------------------------------------
(* Verb phrases with open complements *)

NumTokVP == 3

VPRootKinds == {Kind("ROOT", "VERB", "VBZ", "")}

VPKinds ==
    {Kind("xcomp", "VERB", "VB", ""),
     KindW("aux", "PART", "TO", "", "to", "to"),
     KindW("aux", "AUX", "VBZ", "", "is", "be"),
     KindW("neg", "PART", "RB", "", "not", "not"),
     Kind("advmod", "ADV", "RB", ""),
     KindW("advmod", "ADV", "RB", "", "very", "very"),
     Kind("dobj", "NOUN", "NN", "")}

InitVP ==
    /\ IsDocOver(NumTokVP, VPRootKinds, VPKinds)
    /\ syn = {}
    /\ Start

SpecVP == InitVP /\ [][Collect]_vars

VerbsAt(i) == svo_triples[i].verbs

\* C6: get_verb_phrase returns one string, which holds, for each xcomp child,
\* the child's lemma and then the rest of the child's own verb phrase: its
\* auxiliaries and negation and the lemmas of its own xcomp children.
C6_XcompChain ==
    Collected =>
        \A i \in DOMAIN svo_triples :
            /\ Len(VerbsAt(i)) = 1
            /\ \A x \in Range(childrenWith(processed[i], {"xcomp"})) :
                  /\ Contains(VerbsAt(i)[1], doc[x].lemma)
                  /\ \A y \in Range(childrenWith(x, {"xcomp"})) :
                        Contains(VerbsAt(i)[1], doc[y].lemma)
                  /\ \A a \in Range(SelectSeq(children(x), IsAuxOrNeg)) :
                        Contains(VerbsAt(i)[1], doc[a].lemma)

-----------------------------------------------------------------------------
(* The filter of action tokens *)

NumTokFilter == 3

FilterRootKinds == {Kind("ROOT", "VERB", "VBD", ""), Kind("ROOT", "NOUN", "NN", "")}

FilterKinds ==
    {Kind(d, "VERB", "VBD", "") : d \in ExcludedDeps \cup {"conj", "ccomp"}}
    \cup {Kind(d, "AUX", "VBD", "") : d \in {"aux", "conj", "ccomp"}}
    \cup {Kind(d, "NOUN", "NN", "") : d \in {"npadvmod", "conj", "dobj"}}

InitFilter ==
    /\ IsDocOver(NumTokFilter, FilterRootKinds, FilterKinds)
    /\ syn = {}
    /\ Start

SpecFilter == InitFilter /\ [][Collect]_vars

ClaimedExcluded == {"aux", "auxpass", "amod", "npadvmod", "prep", "xcomp", "csubj"}

\* C5: a token is processed as an action token iff its class is VERB or AUX,
\* its label is not in {aux, auxpass, amod, npadvmod, prep, xcomp, csubj}, and
\* it is not a conj token whose head's label is in that same set.
C5_ActionTokenFilter ==
    Collected =>
        \A t \in Tok :
            Contains(processed, t) <=>
                /\ doc[t].pos \in {"VERB", "AUX"}
                /\ doc[t].dep \notin ClaimedExcluded
                /\ ~ (doc[t].dep = "conj" /\ doc[doc[t].head].dep \in ClaimedExcluded)

-----------------------------------------------------------------------------
(* Coordinated clauses: "S1 and S2 ... V O1 and O2 ... (and V2)" *)

MaxSubj == 2

MaxObj == 3

NounWords ==
    {[text |-> "car", lemma |-> "car"], [text |-> "cars", lemma |-> "car"],
     [text |-> "auto", lemma |-> "auto"]}

\* Objects are lemmatized: one word for each lemma is enough for them
ObjWords == {w \in NounWords : w.text = w.lemma}

NounKind(dep, w) == KindW(dep, "NOUN", "NN", "", w.text, w.lemma)

\* The parse of a clause: the first subject is the nsubj of the verb and the
\* first object its dobj; each further one is a conj of the one before it; a
\* second verb, when there is one, is a conj of the first
ClauseDoc(sw, ow, second) ==
    LET s == Len(sw)
        o == Len(ow)
        v == s + 1
    IN  [t \in 1..(v + o + IF second THEN 1 ELSE 0) |->
            IF t <= s
            THEN MkToken(IF t = 1 THEN v ELSE t - 1,
                         NounKind(IF t = 1 THEN "nsubj" ELSE "conj", sw[t]), "", "")
            ELSE IF t = v
            THEN MkToken(v, KindW("ROOT", "VERB", "VBD", "", "ate", "eat"), "", "")
            ELSE IF t <= v + o
            THEN MkToken(IF t = v + 1 THEN v ELSE t - 1,
                         NounKind(IF t = v + 1 THEN "dobj" ELSE "conj", ow[t - v]), "", "")
            ELSE MkToken(v, KindW("conj", "VERB", "VBD", "", "slept", "sleep"), "", "")]

\* The pairs of strings the oracle may hold synonymous
SynPairs ==
    LET strings == {w.text : w \in NounWords} \cup {w.lemma : w \in NounWords}
    IN  {{<<a>>, <<b>>} : a, b \in strings} \ {{<<a>>} : a \in strings}

InitRows ==
    /\ \E s \in 0..MaxSubj : \E o \in 0..MaxObj :
       \E sw \in [1..s -> NounWords] : \E ow \in [1..o -> ObjWords] :
       \E second \in BOOLEAN :
           doc = ClauseDoc(sw, ow, second)
    /\ syn \in SUBSET SynPairs
    /\ Start

Spec == InitRows /\ [][Next]_vars

-----------------------------------------------------------------------------
(* Properties of the relation table, under Spec *)

PairCount(n) == (n * (n - 1)) \div 2

\* The number of rows one triple is to give
RowCount(svo) ==
    Len(svo.subjects) + Len(svo.objects)
        + PairCount(Len(svo.subjects)) + PairCount(Len(svo.objects))

\* The number of rows of the triples before the k-th
RECURSIVE RowsBefore(_)
RowsBefore(k) == IF k <= 1 THEN 0 ELSE RowsBefore(k - 1) + RowCount(svo_triples[k - 1])

\* The rows of the k-th triple
Block(k) == SubSeq(data_rows, RowsBefore(k) + 1, RowsBefore(k + 1))

RoleCount(rows, role1, role2) ==
    Cardinality({r \in DOMAIN rows : rows[r].WDW = role1 /\ rows[r].WDW2 = role2})

\* The place of the pair (a, b), a < b, among the pairs of n entries
PairRank(a, b, n) == (a - 1) * n - PairCount(a) + (b - a)

TriplesDone == IF pc = "rows" THEN idx ELSE IF pc = "done" THEN Len(svo_triples) ELSE 0

\* C1: a token with s subjects and o objects gives exactly s Who-Did rows,
\* o Did-What rows, s(s-1)/2 Who-Who rows and o(o-1)/2 What-What rows and no
\* other syntactic row; each Who-Who or What-What row pairs two entries at
\* different places of the list.
C1_CrossProduct ==
    /\ Collected => Len(svo_triples) = Len(processed)
    /\ pc = "rows" => Len(data_rows) = RowsBefore(idx + 1)
    /\ pc = "done" =>
          \A r \in DOMAIN data_rows :
              data_rows[r].Semantic_Syntactic = 0 <=> r <= RowsBefore(Len(svo_triples) + 1)
    /\ \A k \in 1..TriplesDone :
          LET subjects == Mains(svo_triples[k].subjects)
              objects == Mains(svo_triples[k].objects)
              s == Len(subjects)
              o == Len(objects)
              rows == Block(k)
          IN  /\ RoleCount(rows, "Who", "Did") = s
              /\ RoleCount(rows, "Did", "What") = o
              /\ RoleCount(rows, "Who", "Who") = PairCount(s)
              /\ RoleCount(rows, "What", "What") = PairCount(o)
              /\ \A a, b \in 1..s :
                    a < b => LET row == rows[s + o + PairRank(a, b, s)]
                             IN  /\ row.WDW = "Who" /\ row.WDW2 = "Who"
                                 /\ row.Node1 = subjects[a] /\ row.Node2 = subjects[b]
              /\ \A a, b \in 1..o :
                    a < b => LET row == rows[s + o + PairCount(s) + PairRank(a, b, o)]
                             IN  /\ row.WDW = "What" /\ row.WDW2 = "What"
                                 /\ row.Node1 = objects[a] /\ row.Node2 = objects[b]

\* Two subjects and three objects: 2, 3, 1 and 3 rows
C1_Witness ==
    /\ pc = "rows"
    /\ idx >= 1
    /\ Len(svo_triples[idx].subjects) = 2
    /\ Len(svo_triples[idx].objects) = 3
    /\ Len(Block(idx)) = 9
    /\ RoleCount(Block(idx), "Who", "Did") = 2
    /\ RoleCount(Block(idx), "Did", "What") = 3
    /\ RoleCount(Block(idx), "Who", "Who") = 1
    /\ RoleCount(Block(idx), "What", "What") = 3

\* C2 as stated: in every row Role1 is Who or Did and Role2 is Did or What.
C2_Roles_AsStated ==
    \A r \in DOMAIN data_rows :
        data_rows[r].WDW \in {"Who", "Did"} /\ data_rows[r].WDW2 \in {"Did", "What"}

\* C2, amended: in every row, syntactic or synonym-derived, Role1 is Who, Did
\* or What and Role2 is Who, Did or What, and the two roles of a row are
\* Who-Did, Did-What, Who-Who or What-What.
C2_Roles ==
    \A r \in DOMAIN data_rows :
        <<data_rows[r].WDW, data_rows[r].WDW2>>
            \in {<<"Who", "Did">>, <<"Did", "What">>, <<"Who", "Who">>, <<"What", "What">>}

C2_Witness ==
    /\ pc = "done"
    /\ \E r \in DOMAIN data_rows :
          data_rows[r].Semantic_Syntactic = 0 /\ data_rows[r].WDW2 = "Who"
    /\ \E r \in DOMAIN data_rows :
          data_rows[r].Semantic_Syntactic = 1 /\ data_rows[r].WDW = "What"
    /\ \E r \in DOMAIN data_rows :
          data_rows[r].Semantic_Syntactic = 1 /\ data_rows[r].WDW = "Who"

\* The synonym-derived rows of a role
SemanticOf(role) ==
    {r \in DOMAIN data_rows :
        data_rows[r].Semantic_Syntactic = 1 /\ data_rows[r].WDW = role}

SeenAs(role) == Range(IF role = "Who" THEN all_subjects ELSE all_objects)

Occurrences(l, x) == Cardinality({i \in DOMAIN l : l[i] = x})

\* C3: the synonym pass adds exactly one Who-Who row, with trace "N/A" and
\* provenance 1, for each unordered pair of distinct subject strings the
\* oracle holds synonymous, however often the strings occurred, likewise one
\* What-What row for each such pair of object strings, and no row for a pair
\* the oracle rejects.
C3_SynonymRows ==
    pc = "done" =>
        /\ \A r \in DOMAIN data_rows :
              data_rows[r].Semantic_Syntactic = 1 => data_rows[r].WDW \in {"Who", "What"}
        /\ \A role \in {"Who", "What"} :
              /\ \A r \in SemanticOf(role) :
                    /\ data_rows[r].WDW2 = role
                    /\ data_rows[r].Hypergraph = NA
                    /\ data_rows[r].Node1 # data_rows[r].Node2
                    /\ {data_rows[r].Node1, data_rows[r].Node2} \subseteq SeenAs(role)
              /\ \A a, b \in SeenAs(role) :
                    a # b =>
                        Cardinality({r \in SemanticOf(role) :
                            {data_rows[r].Node1, data_rows[r].Node2} = {a, b}})
                          = IF are_synonyms(a, b) THEN 1 ELSE 0

\* Two synonymous subject strings, one of them a subject more than once
C3_Witness ==
    /\ pc = "done"
    /\ \E a, b \in SeenAs("Who") :
          /\ a # b
          /\ are_synonyms(a, b)
          /\ Occurrences(all_subjects, a) >= 2
          /\ Cardinality(SemanticOf("Who")) = 1

\* C4: the second run of extract_svos on the same document, with the same
\* oracle, returns the table of the first run, row for row.
C4_Idempotent ==
    pc = "done" /\ runs = 2 => data_rows = previous

-----------------------------------------------------------------------------
(* Subject inheritance from ancestors *)

NumTokAnc == 5

\* One sentence whose heads all precede their dependents, or all follow them
SentenceHeads(n) ==
    {h \in [1..n -> 1..n] :
        \/ h[1] = 1 /\ \A t \in 2..n : h[t] < t
        \/ h[n] = n /\ \A t \in 1..(n - 1) : h[t] > t}

AncRootKind == Kind("ROOT", "VERB", "VBD", "")

AncKinds ==
    {Kind("nsubj", "NOUN", "NN", ""), Kind("csubj", "VERB", "VBG", ""),
     Kind("ccomp", "VERB", "VB", ""), Kind("conj", "NOUN", "NN", "")}

\* Subjects and complement clauses hang under verbs
ClausesAttached(d) ==
    \A t \in DOMAIN d :
        d[t].dep \in {"nsubj", "csubj", "ccomp"} => d[d[t].head].pos = "VERB"

InitAnc ==
    /\ \E h \in SentenceHeads(NumTokAnc) :
       \E k \in [1..NumTokAnc -> AncKinds] :
           doc = MkDoc(h, [t \in 1..NumTokAnc |->
                              IF h[t] = t THEN AncRootKind ELSE k[t]])
    /\ ClausesAttached(doc)
    /\ syn = {}
    /\ Start

SpecAnc == InitAnc /\ [][Collect]_vars

SubjectDeps == {"nsubj", "nsubjpass", "csubj"}

\* What the verb's own children give: direct, clausal and agent subjects
OwnSubjects(verb) ==
    DirectSubjects(verb) \o ClausalSubjects(verb) \o AgentSubjects(verb)

\* The ancestors, nearest first, that have a subject child expanding to
\* at least one entry
YieldingAncestors(verb) ==
    SelectSeq(ancestors(verb),
        LAMBDA a : \E s \in Range(childrenWith(a, SubjectDeps)) :
                       ExpansionTokens(<<s>>) # <<>>)

\* The subjects of the i-th processed token before its conj noun children
InheritedPart(i) ==
    SubSeq(SubjectsAt(i), 1,
           Len(SubjectsAt(i)) - Len(ConjNounSubjects(processed[i])))

\* The surface words of the tokens a list of subject tokens expands to
ExpansionWords(ts) == Range(WordsOf(ExpansionTokens(ts), FALSE))

\* C11: ancestor inheritance is applied only when direct subjects, clausal
\* subjects and the passive agent yielded nothing; it adopts subjects from
\* exactly one ancestor, the nearest one that has an nsubj, nsubjpass or csubj
\* child yielding an entry, and adds nothing from any farther ancestor.
C11_AncestorInheritance ==
    Collected =>
        \A i \in DOMAIN svo_triples :
            LET verb == processed[i]
                ya == YieldingAncestors(verb)
            IN  doc[verb].dep \notin {"acl", "relcl"} =>
                  /\ OwnSubjects(verb) # <<>> => InheritedPart(i) = OwnSubjects(verb)
                  /\ OwnSubjects(verb) = <<>> /\ ya # <<>> =>
                        /\ InheritedPart(i) # <<>>
                        /\ Range(HeadWords(InheritedPart(i)))
                              \subseteq ExpansionWords(childrenWith(Head(ya), SubjectDeps))
                        /\ \A b \in Range(ancestors(verb)) \ {Head(ya)} :
                              Range(HeadWords(InheritedPart(i)))
                                \cap ExpansionWords(childrenWith(b, SubjectDeps)) = {}

\* A verb without subjects of its own under two ancestors that both have a
\* yielding subject child: the subjects are those of the nearer one
C11_Witness ==
    /\ Collected
    /\ \E i \in DOMAIN svo_triples :
          LET ya == YieldingAncestors(processed[i])
          IN  /\ OwnSubjects(processed[i]) = <<>>
              /\ Len(ya) >= 2
              /\ Range(HeadWords(SubjectsAt(i)))
                    = ExpansionWords(childrenWith(ya[1], {"nsubj"}))

-----------------------------------------------------------------------------
(* Phrases of modified nouns *)

NumTokParts == 5

PartsRootKind == Kind("ROOT", "VERB", "VBD", "")

PartsKinds ==
    {Kind("nsubj", "NOUN", "NN", ""), Kind("amod", "ADJ", "JJ", ""),
     Kind("conj", "ADJ", "JJ", ""), Kind("advmod", "ADV", "RB", ""),
     Kind("prep", "ADP", "IN", "")}

InitParts ==
    /\ \E h \in SentenceHeads(NumTokParts) :
       \E k \in [1..NumTokParts -> PartsKinds] :
           doc = MkDoc(h, [t \in 1..NumTokParts |->
                              IF h[t] = t THEN PartsRootKind ELSE k[t]])
    /\ syn = {}
    /\ Start

SpecParts == InitParts /\ [][Collect]_vars

\* The token a surface word stands for: every token has a word of its own
TokenOf(w) == CHOOSE t \in Tok : doc[t].text = w

\* The tokens of a main phrase other than its head; the documents of
\* SpecParts have no determiner and no relative clause, so each is a modifier
PhraseHead(entry) == TokenOf(entry.main[Len(entry.main)])

PhraseModifiers(entry) ==
    {TokenOf(entry.main[j]) : j \in 1..(Len(entry.main) - 1)}

\* t lies at most three levels below the token h
WithinThreeLevels(t, h) ==
    /\ t # h
    /\ \/ doc[t].head = h
       \/ doc[doc[t].head].head = h
       \/ doc[doc[doc[t].head].head].head = h

\* C12: the modifier collection is bounded to two levels of
\* modifier-of-modifier: no token deeper than the children of the children of
\* a modifier is placed in the main phrase, and no descendant is placed in it
\* whose parent was not itself included as a modifier.
C12_TwoLevelModifiers ==
    Collected =>
        \A i \in DOMAIN svo_triples :
        \A j \in DOMAIN SubjectsAt(i) :
            LET entry == SubjectsAt(i)[j]
            IN  \A m \in PhraseModifiers(entry) :
                    /\ WithinThreeLevels(m, PhraseHead(entry))
                    /\ \/ doc[m].head = PhraseHead(entry)
                       \/ doc[m].head \in PhraseModifiers(entry)

\* C14: in the main phrase built by one call of get_compound_parts each
\* modifier token contributes its word at most once; an adjective coordinated
\* with a direct modifier is not appended again for that modifier's children.
C14_EachModifierOnce ==
    Collected =>
        \A i \in DOMAIN svo_triples :
        \A j \in DOMAIN SubjectsAt(i) :
            NoDuplicates(SubjectsAt(i)[j].main)

-----------------------------------------------------------------------------
(* Coordinated prepositions *)

NumTokConj == 4

ConjRootKinds == {Kind("ROOT", "VERB", "VBD", "")}

ConjKinds ==
    {Kind("prep", "ADP", "IN", ""), Kind("conj", "ADP", "IN", ""),
     Kind("pobj", "NOUN", "NN", "")}

InitConj ==
    /\ IsDocOver(NumTokConj, ConjRootKinds, ConjKinds)
    /\ syn = {}
    /\ Start

SpecConj == InitConj /\ [][Collect]_vars

\* The tokens reachable from S through conjunct links
RECURSIVE ConjReach(_)
ConjReach(S) ==
    LET next == S \cup UNION {Range(conjuncts(t)) : t \in S}
    IN  IF next = S THEN S ELSE ConjReach(next)

\* The calls of get_conjuncts made for the i-th processed token
PrepsAt(i) == Range(childrenWith(processed[i], {"prep"}))

\* C13: get_conjuncts returns a list that starts with the given token and
\* holds every token reachable through conjunct links exactly once; each call
\* adds one token to the list, so the calls number at most the tokens of the
\* document and the traversal ends, also over symmetric conjunct links.
C13_ConjunctsOnce ==
    Collected =>
        \A i \in DOMAIN svo_triples :
        \A p \in PrepsAt(i) :
            LET l == get_conjuncts(p)
            IN  /\ Len(l) >= 1
                /\ l[1] = p
                /\ NoDuplicates(l)
                /\ Range(l) = ConjReach({p})
                /\ Len(l) <= Cardinality(Tok)

\* A preposition with two conjuncts, each of which names the other two
C13_Witness ==
    /\ Collected
    /\ \E i \in DOMAIN svo_triples :
       \E p \in PrepsAt(i) :
          /\ Len(conjuncts(p)) >= 2
          /\ \A c \in Range(conjuncts(p)) :
                Contains(conjuncts(c), p) /\ Len(conjuncts(c)) >= 2
          /\ Len(get_conjuncts(p)) = 1 + Len(conjuncts(p))

====
